---- MODULE Spec2Model ----
(***************************************************************************)
(* TeleStorage: the chunked transfer protocol of the server.               *)
(*   Chunk Codec      splitFile / joinChunks        (server/tdlib.ts)      *)
(*   Gateway          TDLibClientImpl               (server/tdlib.ts)      *)
(*   Orchestrator     TelegramService               (telegram.service.ts)  *)
(*   File API         filesController / MemStorage  (files.controller.ts,  *)
(*                                                   storage.ts)           *)
(* Sizes of the transfer model are in units of 0.1 GiB, so that the 2 GiB  *)
(* limit of sendFile is 20 and the 1.9 GiB default chunk of splitFile 19.  *)
(* Sizes of the file API model are in GiB.                                 *)
(***************************************************************************)
EXTENDS Integers, Sequences, FiniteSets, Bags, TLC

\* ------------------------------------------------------------------------
\* Bounds of the model
\* ------------------------------------------------------------------------
MaxFileLen == 5        \* codec check: longest input file, in bytes
MaxChunk == 3          \* codec check: largest chunkSize argument
MaxOps == 2            \* transfers requested in one run
MaxTime == 6           \* minutes the clock is followed during one wait
MaxListeners == 2      \* update listeners one wait may register
MaxRequests == 3       \* session check: requests handed to the relay
MaxFiles == 3          \* file API: file records created in one run
MaxInFlight == 2       \* file API: TelegramService calls outstanding at once
MaxLinks == 1          \* file API: shared links created in one run
MaxAccess == 1         \* file API: successful accesses of one shared link
MaxDay == 2            \* file API: days the clock is followed
MaxServing == 2        \* file API: download requests served at the same time

\* ------------------------------------------------------------------------
\* Program constants
\* ------------------------------------------------------------------------
maxSize == 20          \* 2 * 1024^3 bytes, in units of 0.1 GiB
defaultChunkSize == 19        \* 1.9 * 1024^3 bytes, in units of 0.1 GiB
maxSizeBytes == 2      \* filesController.uploadFile: 2 GiB
defaultQuota == 5      \* MemStorage.createUser: 5 GiB
timeoutDuration == 5   \* 300000 ms, in minutes

\* ------------------------------------------------------------------------
\* Local file system: a function from the paths that exist to their bytes
\* ------------------------------------------------------------------------
Path(dir, name, part) == [dir |-> dir, name |-> name, part |-> part]

\* a hole of a sparse JavaScript array (undefined)
NoPath == Path("undefined", <<>>, 0)

\* `${filePath}.part${i}`
PartPath(filePath, i) == [filePath EXCEPT !.part = i]

existsSync(d, p) == p \in DOMAIN d

writeFileSync(d, p, bytes) == [q \in (DOMAIN d) \cup {p} |-> IF q = p THEN bytes ELSE d[q]]

unlinkSync(d, p) == [q \in (DOMAIN d) \ {p} |-> d[q]]

Min(a, b) == IF a <= b THEN a ELSE b

\* ------------------------------------------------------------------------
\* Chunk Codec
\* ------------------------------------------------------------------------
\* Math.ceil(size / chunkSize), chunkSize a whole number of bytes
CeilFloorMutant(size, chunkSize) == size \div chunkSize

Ceil(size, chunkSize) ==
    IF size % chunkSize = 0 THEN size \div chunkSize ELSE (size \div chunkSize) + 1

\* start and end of chunk i (0-based) as splitFile computes them
chunkStart(i, chunkSize) == i * chunkSize

chunkEnd(i, chunkSize, size) == Min(chunkStart(i, chunkSize) + chunkSize, size)

\* the bytes readSync copies into the buffer of chunk i
chunkBytes(bytes, i, chunkSize) ==
    SubSeq(bytes, chunkStart(i, chunkSize) + 1, chunkEnd(i, chunkSize, Len(bytes)))

\* splitFile: the paths it returns
splitFilePaths(d, filePath, chunkSize) ==
    IF Len(d[filePath]) <= chunkSize
    THEN <<filePath>>
    ELSE [k \in 1..Ceil(Len(d[filePath]), chunkSize) |-> PartPath(filePath, k)]

\* splitFile: the disk it leaves (one chunk file per part; the source stays)
splitFileDisk(d, filePath, chunkSize) ==
    IF Len(d[filePath]) <= chunkSize
    THEN d
    ELSE LET n == Ceil(Len(d[filePath]), chunkSize)
             new == {PartPath(filePath, k) : k \in 1..n}
         IN [q \in (DOMAIN d) \cup new |->
               IF q \in new
               THEN chunkBytes(d[filePath], q.part - 1, chunkSize)
               ELSE d[q]]

\* joinChunks: the for-of loop from position k on; out is what has been
\* written to the stream so far.  readFileSync throws on a hole or on a
\* missing file; the stream then still flushes what was written.
RECURSIVE joinFrom(_, _, _, _, _)
joinFrom(d, chunkPaths, k, out, outputPath) ==
    IF k > Len(chunkPaths)
    THEN [disk |-> writeFileSync(d, outputPath, out), ok |-> TRUE]
    ELSE IF ~existsSync(d, chunkPaths[k])
         THEN [disk |-> writeFileSync(d, outputPath, out), ok |-> FALSE]
         ELSE joinFrom(unlinkSync(d, chunkPaths[k]), chunkPaths, k + 1,
                       out \o d[chunkPaths[k]], outputPath)

joinChunksReversedMutant(d, chunkPaths, outputPath) ==
    joinFrom(d, [k \in 1..Len(chunkPaths) |-> chunkPaths[Len(chunkPaths) + 1 - k]],
             1, <<>>, outputPath)

joinChunks(d, chunkPaths, outputPath) == joinFrom(d, chunkPaths, 1, <<>>, outputPath)

\* ------------------------------------------------------------------------
\* Captions: sequences of tokens; a decimal digit is one token
\* ------------------------------------------------------------------------
DigitTok == <<"0", "1", "2", "3", "4", "5", "6", "7", "8", "9">>

IsDigit(t) == \E d \in 1..10 : DigitTok[d] = t

DigitVal(t) == (CHOOSE d \in 1..10 : DigitTok[d] = t) - 1

\* `${n}` of a non-negative integer
RECURSIVE ToDigits(_)
ToDigits(n) ==
    IF n < 10 THEN <<DigitTok[n + 1]>>
    ELSE ToDigits(n \div 10) \o <<DigitTok[(n % 10) + 1]>>

\* parseInt of a run of digits
RECURSIVE parseInt(_)
parseInt(ds) ==
    IF Len(ds) = 0 THEN 0
    ELSE 10 * parseInt(SubSeq(ds, 1, Len(ds) - 1)) + DigitVal(ds[Len(ds)])

\* `${fileName}.part${i}/${n}`
partCaption(fileName, i, n) == fileName \o <<".part">> \o ToDigits(i) \o <<"/">> \o ToDigits(n)

\* length of the run of digits that ends at position k
RECURSIVE digitRun(_, _)
digitRun(s, k) == IF k >= 1 /\ IsDigit(s[k]) THEN 1 + digitRun(s, k - 1) ELSE 0

\* caption.match(/\.part(\d+)\/(\d+)$/) with parseInt of both groups, and
\* caption.replace(/\.part\d+\/\d+$/, '')
partMatch(caption) ==
    LET l == Len(caption)
        r2 == digitRun(caption, l)
        slash == l - r2
        r1 == digitRun(caption, slash - 1)
        dot == slash - 1 - r1
        matched == /\ r2 >= 1
                   /\ slash >= 1 /\ caption[slash] = "/"
                   /\ r1 >= 1
                   /\ dot >= 1 /\ caption[dot] = ".part"
    IN IF matched
       THEN [matched |-> TRUE,
             partNumber |-> parseInt(SubSeq(caption, dot + 1, slash - 1)),
             totalParts |-> parseInt(SubSeq(caption, slash + 1, l)),
             baseName |-> SubSeq(caption, 1, dot - 1)]
       ELSE [matched |-> FALSE, partNumber |-> 0, totalParts |-> 0, baseName |-> caption]

\* chunkPaths[k - 1] = p on a JavaScript array (k counted from 1 here):
\* writing past the end leaves holes
SetAtPushMutant(s, k, p) == Append(s, p)

SetAt(s, k, p) ==
    IF k < 1 THEN s
    ELSE [j \in 1..(IF k > Len(s) THEN k ELSE Len(s)) |->
            IF j = k THEN p ELSE IF j <= Len(s) THEN s[j] ELSE NoPath]

\* ------------------------------------------------------------------------
\* State
\* ------------------------------------------------------------------------
VARIABLES
    disk,       \* local file system
    channel,    \* the relay channel: message id -> [caption, data]
    tdfiles,    \* the relay client's file table: file id -> [path, completed]
    op,         \* the TelegramService call in progress: "none", "send", "download"
    pc,         \* where that call stands
    orch,       \* locals of TelegramService.sendFile / downloadFile
    gw,         \* locals of TDLibClientImpl.uploadFile / downloadFile
    elapsed,    \* minutes since the current wait began
    res,        \* what the finished call returned or threw
    made,       \* chunk files the current transfer created or fetched (history)
    sent,       \* the multi- and single-part uploads that succeeded (history)
    lastUpd,    \* the last update handed to the download listener (history)
    opsLeft,    \* transfers still to be requested
    cpc,        \* codec check: "off", "start", "split", "joined", "joinFailed"
    cchunk,     \* codec check: the chunkSize argument
    cparts,     \* codec check: the paths splitFile returned
    cfile,      \* codec check: the bytes of the input file (history)
    client,     \* TDLibClientImpl.client is not null
    authenticated, \* TDLibClientImpl.authenticated
    requests,   \* requests the gateway has handed to the relay (client.invoke)
    call,       \* the last gateway operation called and how it began (history)
    users,      \* MemStorage.users: user id -> [usedStorage, quota]
    files,      \* MemStorage.files: file id -> file record
    sharedFiles, \* MemStorage.sharedFiles: shared id -> link record
    now,        \* the day of the wall clock
    inflight,   \* TelegramService calls started and not yet settled (a bag)
    resp,       \* the last HTTP response sent
    serving     \* download requests being served: request -> its position

codecVars == <<cpc, cchunk, cparts, cfile>>
relayVars == <<channel, tdfiles>>
callVars == <<op, pc, orch, gw, elapsed, res>>
histVars == <<made, sent, lastUpd, opsLeft>>
authVars == <<client, authenticated, requests, call>>
apiVars == <<users, files, sharedFiles, now, inflight, resp>>
transferVars == <<disk, relayVars, callVars, histVars>>
vars == <<disk, channel, tdfiles, op, pc, orch, gw, elapsed, res,
          made, sent, lastUpd, opsLeft, cpc, cchunk, cparts, cfile,
          client, authenticated, requests, call,
          users, files, sharedFiles, now, inflight, resp, serving>>

EmptyDisk == [q \in {} |-> <<>>]

OrchIdle ==
    [filePath |-> NoPath, fileName |-> <<>>, multi |-> FALSE, chunkPaths |-> <<>>,
     i |-> 0, results |-> <<>>, messageId |-> 0, partNumber |-> 0, totalParts |-> 0,
     baseName |-> <<>>, caption |-> <<>>, confirmed |-> TRUE, zero |-> FALSE,
     started |-> <<>>, sources |-> <<>>]

GwIdle ==
    [path |-> NoPath, caption |-> <<>>, fileId |-> 0, messageId |-> 0,
     expectedSize |-> 0, listeners |-> 0, timeout |-> FALSE, remoteDone |-> FALSE,
     ret |-> NoPath, early |-> FALSE]

ResNone == [ok |-> FALSE, err |-> "", messageId |-> 0, path |-> NoPath]

Thrown(e) == [ok |-> FALSE, err |-> e, messageId |-> 0, path |-> NoPath]

\* ------------------------------------------------------------------------
\* The channel as it may stand when the server starts: it is owned outside
\* the server and holds whatever was posted to it before
\* ------------------------------------------------------------------------
Msg(caption, data) == [caption |-> caption, data |-> data]

InitChannels ==
    { <<>>,
      <<Msg(partCaption(<<"b">>, 1, 2), <<71, 72>>), Msg(partCaption(<<"b">>, 2, 2), <<73>>)>>,
      <<Msg(partCaption(<<"b">>, 2, 3), <<82>>), Msg(<<"c">>, <<91, 92>>)>>,
      <<Msg(partCaption(<<"d">>, 3, 1), <<95>>)>> }

UploadSizes == {1, maxSize, maxSize + 1, 2 * defaultChunkSize + 1}

FileNames == {<<"a">>}

InitTransfer ==
    /\ disk = EmptyDisk
    /\ channel \in InitChannels
    /\ tdfiles = [k \in 1..Len(channel) |-> [path |-> NoPath, completed |-> FALSE]]
    /\ op = "none"
    /\ pc = "idle"
    /\ orch = OrchIdle
    /\ gw = GwIdle
    /\ elapsed = 0
    /\ res = ResNone
    /\ made = {}
    /\ sent = <<>>
    /\ lastUpd = <<>>
    /\ opsLeft = MaxOps

CodecOff ==
    /\ cpc = "off"
    /\ cchunk = 1
    /\ cparts = <<>>
    /\ cfile = <<>>

\* the gateway after `new TDLibClientImpl()`
CallNone ==
    [name |-> "", hadClient |-> FALSE, wasAuthenticated |-> FALSE,
     error |-> "", issued |-> FALSE]

GatewayNew ==
    /\ client = FALSE
    /\ authenticated = FALSE
    /\ requests = 0
    /\ call = CallNone

\* the gateway after TelegramService.initialize has succeeded
GatewayReady ==
    /\ client = TRUE
    /\ authenticated = TRUE
    /\ requests = 0
    /\ call = CallNone

\* no download request is being served
Requests == 1..MaxServing

NotServing == [pc |-> "idle", messageId |-> 0, filePath |-> NoPath, body |-> <<>>]

ServingNone == serving = [r \in Requests |-> NotServing]

\* the storage after `new MemStorage()` and the registration of the users
Users == {1, 2}

RespNone == [status |-> 0, message |-> ""]

StorageNew ==
    /\ users = [u \in Users |-> [usedStorage |-> 0, quota |-> defaultQuota]]
    /\ files = <<>>
    /\ sharedFiles = <<>>
    /\ now = 0
    /\ inflight = EmptyBag
    /\ resp = RespNone

Init ==
    /\ InitTransfer
    /\ CodecOff
    /\ GatewayReady
    /\ ServingNone
    /\ StorageNew

\* ------------------------------------------------------------------------
\* Gateway put: TDLibClientImpl.sendMessageWithFile -> uploadFile
\* ------------------------------------------------------------------------
\* the message sendMessage creates: uploadFile builds inputMessageDocument
\* from the file alone, the caption argument of sendMessageWithFile is not
\* part of the request
sentMessage(path, caption, d) == Msg(<<>>, d[path])

\* onUpdateFile: what one update makes the upload listener do
onUpdateFile(u) ==
    IF u.lc /\ ~u.la THEN "resolve"
    ELSE IF ~u.lc /\ u.la THEN "more"
    ELSE IF ~u.lc /\ ~u.la THEN "reject"
    ELSE "ignore"

\* updateFile records: local.is_downloading_completed / _active and
\* remote.is_uploading_active / _completed
UploadUpdates ==
    {u \in [lc : BOOLEAN, la : BOOLEAN, ru : BOOLEAN, rc : BOOLEAN] : ~(u.ru /\ u.rc)}

\* ------------------------------------------------------------------------
\* TelegramService.sendFile
\* ------------------------------------------------------------------------
UploadPath(fileName) == Path("uploads", fileName, 0)

\* `if (stats.size > maxSize)`: only a file above the 2 GiB limit is split
needsSplitNeverMutant(size) == FALSE

needsSplit(size) == size > maxSize

\* the request layer has stored the upload at filePath; sendFile stats it
\* and splits it when it exceeds maxSize
SendFileStart(size, fileName) ==
    /\ op = "none"
    /\ opsLeft > 0
    /\ LET filePath == UploadPath(fileName)
           d0 == writeFileSync(disk, filePath, [k \in 1..size |-> k])
           multi == needsSplit(size)
           paths == IF multi THEN splitFilePaths(d0, filePath, defaultChunkSize) ELSE <<>>
       IN /\ disk' = (IF multi THEN splitFileDisk(d0, filePath, defaultChunkSize) ELSE d0)
          /\ orch' = [OrchIdle EXCEPT !.filePath = filePath, !.fileName = fileName,
                                      !.multi = multi, !.chunkPaths = paths, !.i = 1]
          /\ made' = (IF multi THEN {paths[k] : k \in 1..Len(paths)} \ {filePath} ELSE {})
    /\ op' = "send"
    /\ pc' = "putBegin"
    /\ opsLeft' = opsLeft - 1
    /\ res' = ResNone
    /\ UNCHANGED <<relayVars, gw, elapsed, sent, lastUpd, codecVars, authVars, apiVars, serving>>

\* the path and the caption of the put sendFile is about to make
putPath == IF orch.multi THEN orch.chunkPaths[orch.i] ELSE orch.filePath

putCaption ==
    IF orch.multi
    THEN partCaption(orch.fileName, orch.i, Len(orch.chunkPaths))
    ELSE orch.fileName

\* any throw inside the try block of sendFile: the catch rethrows
SendFailsGoesOnMutant(e) ==
    /\ pc' = "putBegin"
    /\ res' = res

SendFails(e) ==
    /\ pc' = "done"
    /\ res' = Thrown(e)

\* uploadFile up to the subscription of its listener
PutBegin(o) ==
    /\ op = "send"
    /\ pc = "putBegin"
    /\ IF ~existsSync(disk, putPath)
       THEN /\ SendFails("FileNotFound")
            /\ UNCHANGED <<relayVars, gw, elapsed>>
       ELSE CASE o = "noChat" ->
                   /\ SendFails("ChatNotFound")
                   /\ UNCHANGED <<relayVars, gw, elapsed>>
              [] o = "invokeError" ->
                   /\ SendFails("InvokeError")
                   /\ UNCHANGED <<relayVars, gw, elapsed>>
              [] o = "noLocal" ->
                   /\ channel' = Append(channel, sentMessage(putPath, putCaption, disk))
                   /\ tdfiles' = Append(tdfiles, [path |-> putPath, completed |-> TRUE])
                   /\ SendFails("MessageUndefined")
                   /\ UNCHANGED <<gw, elapsed>>
              [] o = "accepted" ->
                   /\ channel' = Append(channel, sentMessage(putPath, putCaption, disk))
                   /\ tdfiles' = Append(tdfiles, [path |-> putPath, completed |-> TRUE])
                   /\ gw' = [GwIdle EXCEPT !.path = putPath, !.caption = putCaption,
                                           !.fileId = Len(channel) + 1,
                                           !.messageId = Len(channel) + 1,
                                           !.listeners = 1]
                   /\ elapsed' = 0
                   /\ pc' = "upWait"
                   /\ UNCHANGED res
              [] o = "early" ->
                   \* the relay emitted the completing updateFile while
                   \* sendMessage was awaited: no listener was subscribed yet
                   /\ channel' = Append(channel, sentMessage(putPath, putCaption, disk))
                   /\ tdfiles' = Append(tdfiles, [path |-> putPath, completed |-> TRUE])
                   /\ gw' = [GwIdle EXCEPT !.path = putPath, !.caption = putCaption,
                                           !.fileId = Len(channel) + 1,
                                           !.messageId = Len(channel) + 1,
                                           !.listeners = 1, !.early = TRUE]
                   /\ elapsed' = 0
                   /\ pc' = "upWait"
                   /\ UNCHANGED res
    /\ orch' = [orch EXCEPT !.started = Append(@, orch.i)]
    /\ UNCHANGED <<disk, op, histVars, codecVars, authVars, apiVars, serving>>

\* the relay emits an updateFile for the file being uploaded
UploadUpdate(u) ==
    /\ op = "send"
    /\ pc = "upWait"
    /\ gw.listeners > 0
    /\ ~gw.early
    /\ CASE onUpdateFile(u) = "resolve" ->
              /\ gw' = [gw EXCEPT !.listeners = 0, !.remoteDone = gw.remoteDone \/ u.rc]
              /\ pc' = "putReturned"
              /\ UNCHANGED res
         [] onUpdateFile(u) = "more" ->
              /\ 2 * gw.listeners <= MaxListeners
              /\ gw' = [gw EXCEPT !.listeners = 2 * gw.listeners,
                                  !.remoteDone = gw.remoteDone \/ u.rc]
              /\ UNCHANGED <<pc, res>>
         [] onUpdateFile(u) = "reject" ->
              /\ gw' = [gw EXCEPT !.listeners = 0, !.remoteDone = gw.remoteDone \/ u.rc]
              /\ SendFails("UploadFailed")
         [] OTHER ->
              /\ gw' = [gw EXCEPT !.remoteDone = gw.remoteDone \/ u.rc]
              /\ UNCHANGED <<pc, res>>
    /\ UNCHANGED <<disk, relayVars, op, orch, elapsed, histVars, codecVars, authVars, apiVars, serving>>

\* sendMessageWithFile has returned the message: sendFile records it, removes
\* the chunk and goes on to the next part or returns
PutReturn ==
    /\ op = "send"
    /\ pc = "putReturned"
    /\ LET results == Append(orch.results, gw.messageId)
           confirmed == orch.confirmed /\ gw.remoteDone
       IN IF orch.multi
          THEN /\ disk' = unlinkSync(disk, putPath)
               /\ orch' = [orch EXCEPT !.results = results, !.i = orch.i + 1,
                                       !.confirmed = confirmed]
               /\ IF orch.i < Len(orch.chunkPaths)
                  THEN /\ pc' = "putBegin"
                       /\ UNCHANGED <<res, sent>>
                  ELSE /\ pc' = "done"
                       /\ res' = [ok |-> TRUE, err |-> "", messageId |-> results[1],
                                  path |-> NoPath]
                       /\ sent' = Append(sent, [ref |-> results[1],
                                                n |-> Len(orch.chunkPaths),
                                                data |-> disk[orch.filePath],
                                                confirmed |-> confirmed])
          ELSE /\ orch' = [orch EXCEPT !.results = results, !.confirmed = confirmed]
               /\ pc' = "done"
               /\ res' = [ok |-> TRUE, err |-> "", messageId |-> gw.messageId,
                          path |-> NoPath]
               /\ sent' = Append(sent, [ref |-> gw.messageId, n |-> 1,
                                        data |-> disk[orch.filePath],
                                        confirmed |-> confirmed])
               /\ UNCHANGED disk
    /\ gw' = GwIdle
    /\ elapsed' = 0
    /\ UNCHANGED <<relayVars, op, made, lastUpd, opsLeft, codecVars, authVars, apiVars, serving>>

\* ------------------------------------------------------------------------
\* Gateway get: TDLibClientImpl.downloadFile
\* ------------------------------------------------------------------------
\* where the relay client stores the local copy of file fid
tdPath(fid) == Path("tdlib", ToDigits(fid), 0)

\* fileInfo.size || 0
declaredSize(fid) == Len(channel[fid].data)

\* the early return: the file table says the local copy is complete, and the
\* file is there with the declared size
alreadyDownloaded(fid, d) ==
    /\ tdfiles[fid].completed
    /\ tdfiles[fid].path # NoPath
    /\ existsSync(d, tdfiles[fid].path)
    /\ Len(d[tdfiles[fid].path]) = declaredSize(fid)

\* setTimeout(...) and client.on('update', onUpdate)
startWaitNoTimerMutant(g) == [g EXCEPT !.listeners = g.listeners + 1]

startWait(g) == [g EXCEPT !.timeout = TRUE, !.listeners = g.listeners + 1]

\* cleanup(): clearTimeout and client.off('update', onUpdate)
cleanup(g) == [g EXCEPT !.timeout = FALSE,
                        !.listeners = IF g.listeners > 0 THEN g.listeners - 1 ELSE 0]

\* onUpdate: what one update makes the download listener do; d is the disk
\* as the relay client left it when it emitted the update
onUpdateNoSizeMutant(u, d, finalPath, expectedSize) ==
    IF u.lc
    THEN IF existsSync(d, finalPath) THEN "resolve" ELSE "verifyFail"
    ELSE IF ~u.la THEN "reject" ELSE "ignore"

onUpdate(u, d, finalPath, expectedSize) ==
    IF u.lc
    THEN IF existsSync(d, finalPath) /\ Len(d[finalPath]) = expectedSize
         THEN "resolve"
         ELSE "verifyFail"
    ELSE IF ~u.la THEN "reject" ELSE "ignore"

\* updateFile records of a download: local.is_downloading_completed /
\* _active, and what the relay client left at local.path
DownloadUpdates ==
    {[lc |-> TRUE, la |-> FALSE, local |-> l] : l \in {"full", "short", "missing"}}
      \cup {[lc |-> FALSE, la |-> b, local |-> "none"] : b \in BOOLEAN}

\* the disk after the relay client has stored (or failed to store) the copy
relayWrites(d, u, fid) ==
    IF u.local = "full" THEN writeFileSync(d, tdPath(fid), channel[fid].data)
    ELSE IF u.local = "short"
         THEN writeFileSync(d, tdPath(fid),
                            SubSeq(channel[fid].data, 1, Len(channel[fid].data) - 1))
         ELSE IF u.local = "missing" THEN unlinkSync(d, tdPath(fid)) ELSE d

\* any throw inside the try block of TelegramService.downloadFile
DownloadFails(e) ==
    /\ pc' = "done"
    /\ res' = Thrown(e)

\* the index of the part TelegramService.downloadFile is fetching: the
\* referenced part first (orch.i = 0), then the loop variable
partIndex == IF ~orch.multi THEN 1 ELSE IF orch.i = 0 THEN orch.partNumber ELSE orch.i

\* getFile, the early return, the download request and the start of the wait
GetBegin(o) ==
    /\ op = "download"
    /\ pc = "getBegin"
    /\ CASE o = "getFileError" ->
              /\ DownloadFails("GetFileError")
              /\ UNCHANGED <<gw, elapsed>>
         [] o # "getFileError" /\ alreadyDownloaded(gw.fileId, disk) ->
              /\ gw' = [gw EXCEPT !.expectedSize = declaredSize(gw.fileId),
                                  !.ret = tdfiles[gw.fileId].path]
              /\ pc' = "getReturned"
              /\ UNCHANGED <<res, elapsed>>
         [] o = "invokeError" /\ ~alreadyDownloaded(gw.fileId, disk) ->
              /\ DownloadFails("InvokeError")
              /\ UNCHANGED <<gw, elapsed>>
         [] o = "started" /\ ~alreadyDownloaded(gw.fileId, disk) ->
              /\ gw' = startWait([gw EXCEPT !.expectedSize = declaredSize(gw.fileId)])
              /\ elapsed' = 0
              /\ pc' = "dlWait"
              /\ UNCHANGED res
    /\ lastUpd' = <<>>
    /\ orch' = [orch EXCEPT !.started = Append(@, partIndex)]
    /\ UNCHANGED <<disk, relayVars, op, made, sent, opsLeft, codecVars, authVars, apiVars, serving>>

\* getFile and the download request as in GetBegin, but the relay client
\* stores the copy and emits its completing updateFile while the request is
\* awaited: the timer and the listener are set up after the event has fired
GetBeginEarly ==
    /\ op = "download"
    /\ pc = "getBegin"
    /\ ~alreadyDownloaded(gw.fileId, disk)
    /\ LET fid == gw.fileId
       IN /\ disk' = writeFileSync(disk, tdPath(fid), channel[fid].data)
          /\ tdfiles' = [tdfiles EXCEPT ![fid] = [path |-> tdPath(fid), completed |-> TRUE]]
          /\ made' = made \cup {tdPath(fid)}
          /\ gw' = startWait([gw EXCEPT !.expectedSize = declaredSize(fid),
                                        !.early = TRUE])
    /\ elapsed' = 0
    /\ pc' = "dlWait"
    /\ lastUpd' = <<>>
    /\ orch' = [orch EXCEPT !.started = Append(@, partIndex)]
    /\ UNCHANGED <<channel, op, res, sent, opsLeft, codecVars, authVars, apiVars, serving>>

\* the relay emits an updateFile for the file being downloaded
DownloadUpdate(u) ==
    /\ op = "download"
    /\ pc = "dlWait"
    /\ gw.listeners > 0
    /\ ~gw.early
    /\ LET fid == gw.fileId
           d1 == relayWrites(disk, u, fid)
           outcome == onUpdate(u, d1, tdPath(fid), gw.expectedSize)
       IN /\ disk' = d1
          /\ tdfiles' = (IF u.lc
                         THEN [tdfiles EXCEPT ![fid] = [path |-> tdPath(fid),
                                                         completed |-> TRUE]]
                         ELSE tdfiles)
          /\ made' = (IF existsSync(d1, tdPath(fid)) THEN made \cup {tdPath(fid)} ELSE made)
          /\ CASE outcome = "resolve" ->
                    /\ gw' = [cleanup(gw) EXCEPT !.ret = tdPath(fid)]
                    /\ pc' = "getReturned"
                    /\ UNCHANGED res
               [] outcome = "verifyFail" ->
                    /\ gw' = cleanup(gw)
                    /\ DownloadFails("DownloadVerificationFailed")
               [] outcome = "reject" ->
                    /\ gw' = cleanup(gw)
                    /\ DownloadFails("DownloadFailed")
               [] OTHER ->
                    UNCHANGED <<gw, pc, res>>
    /\ lastUpd' = <<u>>
    /\ UNCHANGED <<channel, op, orch, elapsed, sent, opsLeft, codecVars, authVars, apiVars, serving>>

\* the timer of the wait fires
DownloadTimeout ==
    /\ op = "download"
    /\ pc = "dlWait"
    /\ gw.timeout
    /\ elapsed >= timeoutDuration
    /\ gw' = cleanup(gw)
    /\ DownloadFails("DownloadTimeout")
    /\ UNCHANGED <<disk, relayVars, op, orch, elapsed, histVars, codecVars, authVars, apiVars, serving>>

\* ------------------------------------------------------------------------
\* TelegramService.downloadFile
\* ------------------------------------------------------------------------
TempPath(name) == Path("telestore_temp", name, 0)

\* getMessage and the inspection of the caption
DownloadStart(messageId, o) ==
    /\ op = "none"
    /\ opsLeft > 0
    /\ op' = "download"
    /\ opsLeft' = opsLeft - 1
    /\ IF messageId > Len(channel)
       THEN /\ DownloadFails("MessageNotFound")
            /\ orch' = [OrchIdle EXCEPT !.messageId = messageId]
            /\ UNCHANGED gw
       ELSE IF o = "error"
            THEN /\ DownloadFails("GetMessageError")
                 /\ orch' = [OrchIdle EXCEPT !.messageId = messageId]
                 /\ UNCHANGED gw
            ELSE LET caption == channel[messageId].caption
                     m == partMatch(caption)
                 IN /\ orch' = [OrchIdle EXCEPT !.messageId = messageId,
                                                !.caption = caption,
                                                !.multi = m.matched,
                                                !.partNumber = m.partNumber,
                                                !.totalParts = m.totalParts,
                                                !.baseName = m.baseName]
                    /\ gw' = [GwIdle EXCEPT !.fileId = messageId]
                    /\ pc' = "getBegin"
                    /\ res' = ResNone
    /\ UNCHANGED <<disk, relayVars, elapsed, made, sent, lastUpd, codecVars, authVars, apiVars, serving>>

\* the loop `for (i = 1; i <= totalParts; i++) { if (i === partNumber) continue`
nextPart(k) == IF k = orch.partNumber THEN k + 1 ELSE k

\* `chunkPaths[i - 1] = ...`: the relay object whose file went into position k
\* (0 where no object was put)
sourceAt(s, k, fid) ==
    IF k < 1 THEN s
    ELSE [j \in 1..(IF k > Len(s) THEN k ELSE Len(s)) |->
            IF j = k THEN fid ELSE IF j <= Len(s) THEN s[j] ELSE 0]

\* with the chunk paths collected so far: search for the next part, or join
Advance(paths, zero, sources) ==
    LET next == nextPart(orch.i + 1)
    IN IF next <= orch.totalParts
       THEN /\ orch' = [orch EXCEPT !.chunkPaths = paths, !.i = next, !.zero = zero,
                                    !.sources = sources]
            /\ pc' = "search"
            /\ UNCHANGED <<disk, res>>
       ELSE LET outputPath == TempPath(orch.baseName)
                r == joinChunks(disk, paths, outputPath)
            IN /\ orch' = [orch EXCEPT !.chunkPaths = paths, !.i = next, !.zero = zero,
                                        !.sources = sources]
               /\ disk' = r.disk
               /\ pc' = "done"
               /\ res' = IF r.ok
                         THEN [ok |-> TRUE, err |-> "", messageId |-> 0, path |-> outputPath]
                         ELSE Thrown("JoinFailed")

\* client.downloadFile has returned a path to TelegramService.downloadFile
GetReturn ==
    /\ op = "download"
    /\ pc = "getReturned"
    /\ IF orch.multi
       THEN Advance(SetAt(orch.chunkPaths, partIndex, gw.ret), orch.zero,
                    sourceAt(orch.sources, partIndex, gw.fileId))
       ELSE LET outputPath ==
                    TempPath(IF orch.caption = <<>> THEN <<"downloaded_file">>
                             ELSE orch.caption)
            IN /\ disk' = writeFileSync(disk, outputPath, disk[gw.ret])
               /\ pc' = "done"
               /\ res' = [ok |-> TRUE, err |-> "", messageId |-> 0, path |-> outputPath]
               /\ UNCHANGED orch
    /\ gw' = GwIdle
    /\ elapsed' = 0
    /\ UNCHANGED <<relayVars, op, histVars, codecVars, authVars, apiVars, serving>>

\* what the loop does with a search result
siblingStepSkipMutant(search) ==
    IF Len(search.messages) = 0 THEN "skip" ELSE "fetch"

siblingStep(search) ==
    IF Len(search.messages) = 0 THEN "throw" ELSE "fetch"

\* the relay's answers to searchChatMessages: an error, no message, or one
\* message of the channel
SearchResults ==
    {[error |-> TRUE, messages |-> <<>>], [error |-> FALSE, messages |-> <<>>]}
      \cup {[error |-> FALSE, messages |-> <<k>>] : k \in 1..Len(channel)}

\* the search for part orch.i and what follows it
SearchSibling(search) ==
    /\ op = "download"
    /\ pc = "search"
    /\ IF search.error
       THEN /\ DownloadFails("SearchError")
            /\ UNCHANGED <<disk, orch, gw>>
       ELSE CASE siblingStep(search) = "throw" ->
                   /\ DownloadFails("SiblingNotFound")
                   /\ orch' = [orch EXCEPT !.zero = TRUE]
                   /\ UNCHANGED <<disk, gw>>
              [] siblingStep(search) = "fetch" ->
                   /\ gw' = [GwIdle EXCEPT !.fileId = search.messages[1]]
                   /\ pc' = "getBegin"
                   /\ UNCHANGED <<disk, orch, res>>
              [] OTHER ->
                   /\ Advance(orch.chunkPaths, TRUE, orch.sources)
                   /\ UNCHANGED gw
    /\ UNCHANGED <<relayVars, op, elapsed, histVars, codecVars, authVars, apiVars, serving>>

\* ------------------------------------------------------------------------
\* Time, and the caller taking the result
\* ------------------------------------------------------------------------
\* a pending timer fires when its delay has passed: time does not run past it
Tick ==
    /\ pc \in {"upWait", "dlWait"}
    /\ elapsed < MaxTime
    /\ gw.timeout => elapsed < timeoutDuration
    /\ elapsed' = elapsed + 1
    /\ UNCHANGED <<disk, relayVars, op, pc, orch, gw, res, histVars, codecVars, authVars, apiVars, serving>>

\* the controller has the result; a successful download is streamed and its
\* output file deleted
Return ==
    /\ pc = "done"
    /\ disk' = (IF op = "download" /\ res.ok THEN unlinkSync(disk, res.path) ELSE disk)
    /\ op' = "none"
    /\ pc' = "idle"
    /\ orch' = OrchIdle
    /\ gw' = GwIdle
    /\ elapsed' = 0
    /\ made' = {}
    /\ lastUpd' = <<>>
    /\ res' = ResNone
    /\ UNCHANGED <<relayVars, sent, opsLeft, codecVars, authVars, apiVars, serving>>

Next ==
    \/ \E size \in UploadSizes, fileName \in FileNames : SendFileStart(size, fileName)
    \/ \E o \in {"noChat", "invokeError", "noLocal", "accepted", "early"} : PutBegin(o)
    \/ \E u \in UploadUpdates : UploadUpdate(u)
    \/ PutReturn
    \/ \E messageId \in 1..(Len(channel) + 1), o \in {"ok", "error"} :
          DownloadStart(messageId, o)
    \/ \E o \in {"getFileError", "invokeError", "started"} : GetBegin(o)
    \/ GetBeginEarly
    \/ \E u \in DownloadUpdates : DownloadUpdate(u)
    \/ DownloadTimeout
    \/ GetReturn
    \/ \E search \in SearchResults : SearchSibling(search)
    \/ Tick
    \/ Return

Spec == Init /\ [][Next]_vars

\* ------------------------------------------------------------------------
\* Codec check: splitFile then joinChunks on one file
\* ------------------------------------------------------------------------
CodecSrc == Path("up", <<"a">>, 0)
CodecOut == Path("out", <<"a">>, 0)

RECURSIVE SeqsUpTo(_, _)
SeqsUpTo(S, n) ==
    IF n = 0 THEN {<<>>}
    ELSE LET prev == SeqsUpTo(S, n - 1)
         IN prev \cup {Append(s, x) : s \in {t \in prev : Len(t) = n - 1}, x \in S}

InitCodec ==
    /\ cfile \in SeqsUpTo({0, 1}, MaxFileLen)
    /\ disk = (CodecSrc :> cfile)
    /\ cchunk \in 1..MaxChunk
    /\ cpc = "start"
    /\ cparts = <<>>
    /\ channel = <<>>
    /\ tdfiles = <<>>
    /\ op = "none"
    /\ pc = "idle"
    /\ orch = OrchIdle
    /\ gw = GwIdle
    /\ elapsed = 0
    /\ res = ResNone
    /\ made = {}
    /\ sent = <<>>
    /\ lastUpd = <<>>
    /\ opsLeft = 0
    /\ GatewayNew
    /\ ServingNone
    /\ StorageNew

CodecSplit ==
    /\ cpc = "start"
    /\ existsSync(disk, CodecSrc)
    /\ cparts' = splitFilePaths(disk, CodecSrc, cchunk)
    /\ disk' = splitFileDisk(disk, CodecSrc, cchunk)
    /\ cpc' = "split"
    /\ UNCHANGED <<cchunk, cfile, relayVars, callVars, histVars, authVars, apiVars, serving>>

CodecJoin ==
    /\ cpc = "split"
    /\ LET r == joinChunks(disk, cparts, CodecOut)
       IN /\ disk' = r.disk
          /\ cpc' = IF r.ok THEN "joined" ELSE "joinFailed"
    /\ UNCHANGED <<cchunk, cparts, cfile, relayVars, callVars, histVars, authVars, apiVars, serving>>

NextCodec == CodecSplit \/ CodecJoin

SpecCodec == InitCodec /\ [][NextCodec]_vars

\* ------------------------------------------------------------------------
\* Properties of the transfers
\* ------------------------------------------------------------------------
\* C1: a download of the reference that a multi-part sendFile returned (all
\* of whose puts the relay confirmed as stored) either fails or produces
\* the bytes of the whole original file, never part 1 alone.
C1_WholeFileOrFail ==
    (pc = "done" /\ op = "download" /\ res.ok) =>
        \A k \in 1..Len(sent) :
            (sent[k].ref = orch.messageId /\ sent[k].n > 1 /\ sent[k].confirmed)
                => (existsSync(disk, res.path) /\ disk[res.path] = sent[k].data)

\* C2: an uploadFile for which no completion or failure update arrives is
\* not still waiting once the timeout budget has elapsed.
C2_UploadTimesOut ==
    (pc = "upWait") => (elapsed <= timeoutDuration)

\* C3: when a sendFile or downloadFile call has finished, by success or by
\* failure, none of the chunk files it created or fetched is left on disk.
C3_NoChunkLeft ==
    (pc = "done") => (made \cap DOMAIN disk = {})

\* C4: a download that starts from a tagged part and gets zero results from
\* the search for some sibling fails as a whole with the missing-sibling
\* error; it returns no output file.
C4_MissingSiblingFails ==
    (pc = "done" /\ op = "download" /\ orch.multi /\ orch.zero) =>
        (~res.ok /\ res.err = "SiblingNotFound")

C4_Witness ==
    /\ pc = "done"
    /\ op = "download"
    /\ orch.partNumber = 2
    /\ orch.totalParts = 3
    /\ orch.zero
    /\ ~res.ok

\* C7: in a multi-part upload the message stored for part i carries the
\* caption sendFile passed, `${fileName}.part${i}/${n}`.
C7_PartIsTagged ==
    (pc = "putReturned" /\ orch.multi) =>
        /\ gw.caption = partCaption(orch.fileName, orch.i, Len(orch.chunkPaths))
        /\ channel[gw.messageId].caption = gw.caption

\* C8: uploadFile returns successfully only after an update has reported the
\* remote upload of the file as completed.
C8_ReturnsAfterRemoteStored ==
    (pc = "putReturned") => gw.remoteDone

\* C9: the gateway downloadFile returns a path only when a file of the size
\* the relay declared exists at that path; and when an update reports the
\* download complete while the local copy is missing or of another size,
\* the call fails with the verification error.
C9_VerifiedDownload ==
    /\ (pc = "getReturned") =>
          (existsSync(disk, gw.ret) /\ Len(disk[gw.ret]) = declaredSize(gw.fileId))
    /\ (lastUpd # <<>> /\ lastUpd[1].lc /\ lastUpd[1].local # "full") =>
          (pc = "done" /\ ~res.ok /\ res.err = "DownloadVerificationFailed")

C9_Witness ==
    /\ pc = "getReturned"
    /\ lastUpd # <<>>
    /\ lastUpd[1].lc
    /\ gw.ret = tdPath(gw.fileId)
    /\ disk[gw.ret] = channel[gw.fileId].data

\* C10: the wait of the gateway downloadFile never lasts beyond the timeout:
\* when the budget has elapsed without a completion or failure update the
\* timer fires and the call fails with the timeout error; and whenever the
\* call is not waiting, its listener is unsubscribed and its timer cleared.
C10_DownloadTimesOutAndCleansUp ==
    /\ (pc = "dlWait") => (elapsed <= timeoutDuration /\ gw.timeout /\ gw.listeners = 1)
    /\ (pc = "dlWait" /\ elapsed = timeoutDuration) => ENABLED DownloadTimeout
    /\ (op = "download" /\ pc # "dlWait") => (gw.listeners = 0 /\ ~gw.timeout)
    /\ (pc = "done" /\ res.err = "DownloadTimeout") => (elapsed >= timeoutDuration)

C10_Witness ==
    /\ pc = "done"
    /\ op = "download"
    /\ res.err = "DownloadTimeout"
    /\ elapsed = timeoutDuration
    /\ gw.listeners = 0
    /\ ~gw.timeout

\* C12: within one multi-part sendFile the puts are started in ascending part
\* order 1, 2, ..., each part at most once; the put of part i + 1 is not
\* started before the put of part i has returned successfully; a failing put
\* is the last one started, so no later part is sent.
C12_PutsInOrderStopAtFailure ==
    (op = "send" /\ orch.multi) =>
        /\ orch.started = [k \in 1..Len(orch.started) |-> k]
        /\ Len(orch.started) <= Len(orch.chunkPaths)
        /\ (pc = "putBegin") => (Len(orch.results) = Len(orch.started))
        /\ (pc \in {"upWait", "putReturned"}) =>
               (Len(orch.results) = Len(orch.started) - 1)
        /\ (pc = "done" /\ ~res.ok) => (Len(orch.results) = Len(orch.started) - 1)
        /\ (pc = "done" /\ res.ok) => (Len(orch.results) = Len(orch.chunkPaths))

C12_Witness ==
    /\ op = "send"
    /\ pc = "done"
    /\ ~res.ok
    /\ Len(orch.chunkPaths) = 3
    /\ orch.started = <<1, 2>>
    /\ Len(orch.results) = 1

\* C14: when the get of a part fails by timeout, TelegramService has
\* attempted that part exactly twice by the time the transfer fails (the
\* claim says the same of a put, which has no timeout at all).
C14_TimedOutPartIsRetriedOnce ==
    (pc = "done" /\ res.err \in {"DownloadTimeout", "UploadTimeout"}) =>
        LET last == orch.started[Len(orch.started)]
        IN Cardinality({j \in 1..Len(orch.started) : orch.started[j] = last}) = 2

\* C15: when a multi-part download started from a part tagged i/n succeeds,
\* joinChunks was handed exactly n objects and the object in position j is
\* tagged baseName.part{j}/{n}.
C15_JoinsOnlyMatchingParts ==
    (op = "download" /\ orch.multi /\ pc = "done" /\ res.ok) =>
        /\ Len(orch.sources) = orch.totalParts
        /\ \A j \in 1..Len(orch.sources) :
              /\ orch.sources[j] \in 1..Len(channel)
              /\ channel[orch.sources[j]].caption
                    = partCaption(orch.baseName, j, orch.totalParts)

C23_GapIsRefusedBeforeWriting ==
    (op = "download" /\ orch.multi /\ pc = "done"
       /\ (orch.partNumber < 1 \/ orch.partNumber > orch.totalParts)) =>
        /\ ~res.ok
        /\ ~existsSync(disk, TempPath(orch.baseName))
        /\ \A j \in 1..Len(orch.chunkPaths) :
              orch.chunkPaths[j] # NoPath => existsSync(disk, orch.chunkPaths[j])

\* C24: a completion update the relay emits after the request was accepted
\* but before the listener is subscribed is not lost: the call does not fail
\* and does not sit waiting for the whole timeout duration.
C24_EarlyCompletionIsNotLost ==
    gw.early =>
        /\ ~(pc = "done" /\ ~res.ok)
        /\ ~(pc \in {"upWait", "dlWait"} /\ elapsed >= timeoutDuration)

\* ------------------------------------------------------------------------
\* Gateway session: TDLibClientImpl.initialize / destroy and the head of
\* every gateway operation
\* ------------------------------------------------------------------------
GatewayOps == {"uploadFile", "sendMessageWithFile", "downloadFile", "getFile", "send"}

\* the checks an operation makes before it touches the relay: "" lets it
\* go on to client.invoke
entryCheck(name, hasClient, isAuth) ==
    IF ~hasClient THEN "NotInitialized"
    ELSE IF name # "send" /\ ~isAuth THEN "NotAuthenticated"
    ELSE ""

\* initialize() up to tdl.createClient and the registration of the handlers
TdInitialize ==
    /\ ~client
    /\ client' = TRUE
    /\ UNCHANGED <<authenticated, requests, call>>
    /\ UNCHANGED <<transferVars, codecVars, apiVars, serving>>

AuthorizationStates ==
    {"authorizationStateWaitPhoneNumber", "authorizationStateReady",
     "authorizationStateClosed"}

\* the handler of updateAuthorizationState
TdAuthorizationState(s) ==
    /\ client
    /\ authenticated' = (IF s = "authorizationStateReady" THEN TRUE
                         ELSE IF s = "authorizationStateClosed" THEN FALSE
                         ELSE authenticated)
    /\ UNCHANGED <<client, requests, call>>
    /\ UNCHANGED <<transferVars, codecVars, apiVars, serving>>

TdDestroy ==
    /\ client
    /\ client' = FALSE
    /\ authenticated' = FALSE
    /\ UNCHANGED <<requests, call>>
    /\ UNCHANGED <<transferVars, codecVars, apiVars, serving>>

\* a gateway operation is called: it throws at its head or hands its first
\* request to the relay
TdCall(name) ==
    /\ requests < MaxRequests
    /\ LET e == entryCheck(name, client, authenticated)
       IN /\ call' = [name |-> name, hadClient |-> client,
                      wasAuthenticated |-> authenticated,
                      error |-> e, issued |-> (e = "")]
          /\ requests' = (IF e = "" THEN requests + 1 ELSE requests)
    /\ UNCHANGED <<client, authenticated>>
    /\ UNCHANGED <<transferVars, codecVars, apiVars, serving>>

InitAuth ==
    /\ InitTransfer
    /\ channel = <<>>
    /\ CodecOff
    /\ GatewayNew
    /\ ServingNone
    /\ StorageNew

NextAuth ==
    \/ TdInitialize
    \/ \E s \in AuthorizationStates : TdAuthorizationState(s)
    \/ TdDestroy
    \/ \E name \in GatewayOps : TdCall(name)

SpecAuth == InitAuth /\ [][NextAuth]_vars

\* ------------------------------------------------------------------------
\* Properties of the gateway session
\* ------------------------------------------------------------------------
\* C11: while a session exists and isAuthenticated() is false, every gateway
\* operation (uploadFile, sendMessageWithFile, downloadFile, getFile, send)
\* fails with a not-authenticated error and hands no request to the relay.
C11_FailsFastWhenNotAuthenticated ==
    (call.name # "" /\ call.hadClient /\ ~call.wasAuthenticated) =>
        (call.error = "NotAuthenticated" /\ ~call.issued)

\* ------------------------------------------------------------------------
\* File API: filesController over MemStorage and TelegramService. A handler
\* runs to its response in one step, except where it awaits TelegramService:
\* there other requests are served before it goes on.
\* ------------------------------------------------------------------------
Resp(status, message) == [status |-> status, message |-> message]

\* the request sizes tried: the largest size accepted and the next one
UploadBytes == {maxSizeBytes, maxSizeBytes + 1}

\* MemStorage.createFile
newFile(size, user) ==
    [fileSize |-> size, uploaderId |-> user, isDeleted |-> FALSE, isStarred |-> FALSE]

\* MemStorage.updateUserStorage
updateUserStorage(us, userId, bytesAdded) ==
    [us EXCEPT ![userId].usedStorage =
        IF @ + bytesAdded < 0 THEN 0 ELSE @ + bytesAdded]

\* a TelegramService call that has been started: `awaited` tells whether a
\* handler waits for it
Started(kind, awaited, user, size, file) ==
    [kind |-> kind, awaited |-> awaited, user |-> user, size |-> size, file |-> file]

\* `file.uploaderId !== req.user.id`
notOwnerNeverMutant(file, user) == FALSE

notOwner(file, user) == file.uploaderId # user

\* the sendFile calls outstanding
sending ==
    [c \in {x \in BagToSet(inflight) : x.kind = "sendFile"} |-> CopiesIn(c, inflight)]

\* uploadFile up to `await telegramService.sendFile(...)`
ApiUploadBegin(user, size) ==
    /\ IF size > maxSizeBytes
       THEN /\ resp' = Resp(400, "File too large. Maximum size is 2GB.")
            /\ UNCHANGED inflight
       ELSE IF users[user].usedStorage + size > users[user].quota
       THEN /\ resp' = Resp(400, "Storage quota exceeded")
            /\ UNCHANGED inflight
       ELSE /\ BagCardinality(inflight) < MaxInFlight
            /\ Len(files) + BagCardinality(sending) < MaxFiles
            /\ inflight' = inflight (+) SetToBag({Started("sendFile", TRUE, user, size, 0)})
            /\ UNCHANGED resp
    /\ UNCHANGED <<users, files, sharedFiles, now>>
    /\ UNCHANGED <<transferVars, codecVars, authVars, serving>>

\* firebaseService.setDatabaseData(...) in uploadFile: the class FirebaseService
\* of firebase.service.ts defines no such method, so the call throws a
\* TypeError; the controller imports the service through the bare specifier
\* 'server/services/firebase.service', whose resolution is fixed by the build,
\* so a module that does define it ("returns") is kept as an outcome.
setDatabaseData == {"returns", "TypeError"}

\* sendFile has returned or thrown: setDatabaseData, createFile,
\* updateUserStorage, 201 - or the catch block's 500
ApiUploadSent(c, ok, db) ==
    /\ BagIn(c, inflight)
    /\ c.kind = "sendFile"
    /\ inflight' = inflight (-) SetToBag({c})
    /\ ok \/ db = "returns"
    /\ IF ok /\ db = "returns"
       THEN /\ files' = Append(files, newFile(c.size, c.user))
            /\ users' = updateUserStorage(users, c.user, c.size)
            /\ resp' = Resp(201, "")
       ELSE /\ resp' = Resp(500, "File upload failed")
            /\ UNCHANGED <<files, users>>
    /\ UNCHANGED <<sharedFiles, now>>
    /\ UNCHANGED <<transferVars, codecVars, authVars, serving>>

\* MemStorage.getUserFiles
userFiles(user) ==
    {f \in 1..Len(files) : files[f].uploaderId = user /\ ~files[f].isDeleted}

\* getUserFiles: a downloadFile is started for each listed file and not awaited
ApiGetUserFiles(user) ==
    /\ BagCardinality(inflight) + Cardinality(userFiles(user)) <= MaxInFlight
    /\ inflight' = inflight (+)
          SetToBag({Started("downloadFile", FALSE, user, 0, f) : f \in userFiles(user)})
    /\ resp' = Resp(200, "")
    /\ UNCHANGED <<users, files, sharedFiles, now>>
    /\ UNCHANGED <<transferVars, codecVars, authVars, serving>>

\* downloadFile up to `await telegramService.downloadFile(...)`
ApiDownloadBegin(user, f) ==
    /\ IF f > Len(files)
       THEN /\ resp' = Resp(404, "File not found")
            /\ UNCHANGED inflight
       ELSE IF notOwner(files[f], user)
       THEN /\ resp' = Resp(403, "Access denied")
            /\ UNCHANGED inflight
       ELSE /\ BagCardinality(inflight) < MaxInFlight
            /\ inflight' = inflight (+) SetToBag({Started("downloadFile", TRUE, user, 0, f)})
            /\ UNCHANGED resp
    /\ UNCHANGED <<users, files, sharedFiles, now>>
    /\ UNCHANGED <<transferVars, codecVars, authVars, serving>>

\* telegramService.downloadFile has returned or thrown: the file is streamed,
\* or 500; nobody takes the result of a download that getUserFiles started
ApiDownloadEnd(c, ok) ==
    /\ BagIn(c, inflight)
    /\ c.kind = "downloadFile"
    /\ inflight' = inflight (-) SetToBag({c})
    /\ resp' = (IF ~c.awaited THEN resp
                ELSE IF ok THEN Resp(200, "") ELSE Resp(500, "Failed to download file"))
    /\ UNCHANGED <<users, files, sharedFiles, now>>
    /\ UNCHANGED <<transferVars, codecVars, authVars, serving>>

\* deleteFile: the soft delete and the refund of the size
ApiDeleteFile(user, f) ==
    /\ IF f > Len(files)
       THEN /\ resp' = Resp(404, "File not found")
            /\ UNCHANGED <<files, users>>
       ELSE IF notOwner(files[f], user)
       THEN /\ resp' = Resp(403, "Access denied")
            /\ UNCHANGED <<files, users>>
       ELSE /\ files' = [files EXCEPT ![f].isDeleted = TRUE]
            /\ users' = updateUserStorage(users, user, 0 - files[f].fileSize)
            /\ resp' = Resp(200, "")
    /\ UNCHANGED <<sharedFiles, now, inflight>>
    /\ UNCHANGED <<transferVars, codecVars, authVars, serving>>

InitApi ==
    /\ InitTransfer
    /\ channel = <<>>
    /\ CodecOff
    /\ GatewayReady
    /\ ServingNone
    /\ StorageNew

NextApi ==
    \/ \E user \in Users, size \in UploadBytes : ApiUploadBegin(user, size)
    \/ \E c \in BagToSet(inflight), ok \in BOOLEAN, db \in setDatabaseData :
          ApiUploadSent(c, ok, db)
    \/ \E user \in Users : ApiGetUserFiles(user)
    \/ \E user \in Users, f \in 1..(Len(files) + 1) : ApiDownloadBegin(user, f)
    \/ \E c \in BagToSet(inflight), ok \in BOOLEAN : ApiDownloadEnd(c, ok)
    \/ \E user \in Users, f \in 1..(Len(files) + 1) : ApiDeleteFile(user, f)

SpecApi == InitApi /\ [][NextApi]_vars

\* ------------------------------------------------------------------------
\* Properties of uploads through the file API
\* ------------------------------------------------------------------------
\* C13: at most one TelegramService.sendFile or downloadFile call - and so at
\* most one gateway put or get - is outstanding at any time.
C13_OneRelayOperationAtATime == BagCardinality(inflight) <= 1

\* C16: a file larger than the 2 GiB limit submitted through the upload API
\* is not rejected as too large.
C16_LargeFileIsNotRejected ==
    resp # Resp(400, "File too large. Maximum size is 2GB.")

C22_StoresExactlyWhenSent ==
    [][\A c \in BagToSet(inflight), ok \in BOOLEAN, db \in setDatabaseData :
         ApiUploadSent(c, ok, db) =>
            IF ok
            THEN /\ Len(files') = Len(files) + 1
                 /\ SubSeq(files', 1, Len(files)) = files
                 /\ files'[Len(files')].uploaderId = c.user
                 /\ files'[Len(files')].fileSize = c.size
                 /\ users'[c.user].usedStorage = users[c.user].usedStorage + c.size
                 /\ resp'.status = 201
            ELSE UNCHANGED <<files, users>>]_vars

NoExpiry == 0 - 1

\* MemStorage.createSharedFile; `live` is membership in the sharedFiles map
newLink(f, expiryDate) ==
    [fileId |-> f, expiryDate |-> expiryDate, accessCount |-> 0, live |-> TRUE]

\* `sharedFile.expiryDate && new Date() > new Date(sharedFile.expiryDate)`
expiredNeverMutant(link, today) == FALSE

expired(link, today) == link.expiryDate # NoExpiry /\ today > link.expiryDate

\* request bodies: starFileSchema and shareFileSchema accept or throw; an
\* expiryDays of 0 stands for an absent one
StarBodies ==
    {[valid |-> FALSE, starred |-> FALSE]} \cup [valid : {TRUE}, starred : BOOLEAN]

ShareBodies ==
    {[valid |-> FALSE, expiryDays |-> 0]} \cup [valid : {TRUE}, expiryDays : {0, 1}]

ApiGetFile(user, f) ==
    /\ resp' = (IF f > Len(files) THEN Resp(404, "File not found")
                ELSE IF notOwner(files[f], user) THEN Resp(403, "Access denied")
                ELSE Resp(200, ""))
    /\ UNCHANGED <<users, files, sharedFiles, now, inflight>>
    /\ UNCHANGED <<transferVars, codecVars, authVars, serving>>

ApiStarFile(user, f, body) ==
    /\ IF ~body.valid
       THEN /\ resp' = Resp(400, "Invalid request data")
            /\ UNCHANGED files
       ELSE IF f > Len(files)
       THEN /\ resp' = Resp(404, "File not found")
            /\ UNCHANGED files
       ELSE IF notOwner(files[f], user)
       THEN /\ resp' = Resp(403, "Access denied")
            /\ UNCHANGED files
       ELSE /\ files' = [files EXCEPT ![f].isStarred = body.starred]
            /\ resp' = Resp(200, "")
    /\ UNCHANGED <<users, sharedFiles, now, inflight>>
    /\ UNCHANGED <<transferVars, codecVars, authVars, serving>>

ApiShareFile(user, f, body) ==
    /\ IF ~body.valid
       THEN /\ resp' = Resp(400, "Invalid request data")
            /\ UNCHANGED sharedFiles
       ELSE IF f > Len(files)
       THEN /\ resp' = Resp(404, "File not found")
            /\ UNCHANGED sharedFiles
       ELSE IF notOwner(files[f], user)
       THEN /\ resp' = Resp(403, "Access denied")
            /\ UNCHANGED sharedFiles
       ELSE /\ Len(sharedFiles) < MaxLinks
            /\ sharedFiles' = Append(sharedFiles,
                  newLink(f, IF body.expiryDays # 0 THEN now + body.expiryDays
                             ELSE NoExpiry))
            /\ resp' = Resp(200, "")
    /\ UNCHANGED <<users, files, now, inflight>>
    /\ UNCHANGED <<transferVars, codecVars, authVars, serving>>

ApiDeleteSharedLink(user, s) ==
    /\ IF s > Len(sharedFiles) \/ ~sharedFiles[s].live
       THEN /\ resp' = Resp(404, "Shared file not found")
            /\ UNCHANGED sharedFiles
       ELSE IF notOwner(files[sharedFiles[s].fileId], user)
       THEN /\ resp' = Resp(403, "Access denied")
            /\ UNCHANGED sharedFiles
       ELSE /\ sharedFiles' = [sharedFiles EXCEPT ![s].live = FALSE]
            /\ resp' = Resp(200, "")
    /\ UNCHANGED <<users, files, now, inflight>>
    /\ UNCHANGED <<transferVars, codecVars, authVars, serving>>

\* the public route: no user
ApiGetSharedFile(s) ==
    /\ IF s > Len(sharedFiles) \/ ~sharedFiles[s].live
       THEN /\ resp' = Resp(404, "Shared file not found")
            /\ UNCHANGED sharedFiles
       ELSE IF expired(sharedFiles[s], now)
       THEN /\ resp' = Resp(403, "Share link has expired")
            /\ UNCHANGED sharedFiles
       ELSE /\ sharedFiles[s].accessCount < MaxAccess
            /\ sharedFiles' = [sharedFiles EXCEPT ![s].accessCount = @ + 1]
            /\ resp' = Resp(200, "")
    /\ UNCHANGED <<users, files, now, inflight>>
    /\ UNCHANGED <<transferVars, codecVars, authVars, serving>>

DayPasses ==
    /\ now < MaxDay
    /\ now' = now + 1
    /\ UNCHANGED <<users, files, sharedFiles, inflight, resp>>
    /\ UNCHANGED <<transferVars, codecVars, authVars, serving>>

\* the storage after one of the users has uploaded one file
InitShare ==
    /\ InitTransfer
    /\ channel = <<>>
    /\ CodecOff
    /\ GatewayReady
    /\ ServingNone
    /\ \E u \in Users :
          /\ files = <<newFile(maxSizeBytes, u)>>
          /\ users = updateUserStorage(
                        [v \in Users |-> [usedStorage |-> 0, quota |-> defaultQuota]],
                        u, maxSizeBytes)
    /\ sharedFiles = <<>>
    /\ now = 0
    /\ inflight = EmptyBag
    /\ resp = RespNone

NextShare ==
    \/ \E user \in Users, f \in 1..(Len(files) + 1) : ApiGetFile(user, f)
    \/ \E user \in Users, f \in 1..(Len(files) + 1) : ApiDownloadBegin(user, f)
    \/ \E c \in BagToSet(inflight), ok \in BOOLEAN : ApiDownloadEnd(c, ok)
    \/ \E user \in Users, f \in 1..(Len(files) + 1) : ApiDeleteFile(user, f)
    \/ \E user \in Users, f \in 1..(Len(files) + 1), body \in StarBodies :
          ApiStarFile(user, f, body)
    \/ \E user \in Users, f \in 1..(Len(files) + 1), body \in ShareBodies :
          ApiShareFile(user, f, body)
    \/ \E user \in Users, s \in 1..(Len(sharedFiles) + 1) : ApiDeleteSharedLink(user, s)
    \/ \E s \in 1..(Len(sharedFiles) + 1) : ApiGetSharedFile(s)
    \/ DayPasses

SpecShare == InitShare /\ [][NextShare]_vars

C19_LimitedTimeAccess ==
    [][/\ \A s \in 1..Len(sharedFiles) :
            ApiGetSharedFile(s) =>
              /\ (/\ sharedFiles[s].live
                  /\ sharedFiles[s].expiryDate # NoExpiry
                  /\ sharedFiles[s].expiryDate < now)
                 => (resp'.status = 403 /\ sharedFiles' = sharedFiles)
              /\ (resp'.status = 200)
                 => (sharedFiles' = [sharedFiles EXCEPT ![s].accessCount = @ + 1])
              /\ (~sharedFiles[s].live)
                 => (resp'.status = 404 /\ sharedFiles' = sharedFiles)
       /\ \A u \in Users, s \in 1..Len(sharedFiles) :
            (ApiDeleteSharedLink(u, s) /\ resp'.status = 200) => ~sharedFiles'[s].live
       /\ \A s \in 1..Len(sharedFiles) :
            ~sharedFiles[s].live => ~sharedFiles'[s].live]_vars

\* a link that was accessed while valid is refused once it has expired
C19_Witness ==
    /\ resp = Resp(403, "Share link has expired")
    /\ Len(sharedFiles) = 1
    /\ sharedFiles[1].live
    /\ sharedFiles[1].accessCount = MaxAccess
    /\ sharedFiles[1].expiryDate < now

\* ------------------------------------------------------------------------
\* File API: download requests for single files served at the same time.
\* filesController.downloadFile awaits TelegramService.downloadFile, opens a
\* read stream on the returned path and deletes the file when the stream
\* ends; the requests of different clients interleave at each of these
\* points.
\* ------------------------------------------------------------------------
\* channels holding two single files: both sent by this server (sentMessage
\* leaves the caption empty), or posted with the same or with different
\* captions
OverlapChannels ==
    { <<Msg(<<>>, <<11>>), Msg(<<>>, <<21, 22>>)>>,
      <<Msg(<<"a">>, <<11>>), Msg(<<"a">>, <<21, 22>>)>>,
      <<Msg(<<"a">>, <<11>>), Msg(<<"b">>, <<21, 22>>)>> }

\* path.join(this.tempDir, message.content.caption?.text || 'downloaded_file')
singleOutputPath(caption) ==
    TempPath(IF caption = <<>> THEN <<"downloaded_file">> ELSE caption)

\* the handler up to `await telegramService.downloadFile(...)`, and in it
\* getMessage and the branch for a caption that carries no part tag
ServeBegin(r, messageId) ==
    /\ serving[r].pc = "idle"
    /\ messageId \in 1..Len(channel)
    /\ ~partMatch(channel[messageId].caption).matched
    /\ serving' = [serving EXCEPT ![r] = [NotServing EXCEPT !.pc = "fetching",
                                                             !.messageId = messageId]]
    /\ UNCHANGED <<transferVars, codecVars, authVars, apiVars>>

\* the gateway's downloadFile has returned the relay client's copy or has
\* thrown: copyFileSync to the output path, the path returned to the handler,
\* createReadStream on it - or the catch blocks and the 500
ServeFetched(r, ok) ==
    /\ serving[r].pc = "fetching"
    /\ LET fid == serving[r].messageId
           d1 == writeFileSync(disk, tdPath(fid), channel[fid].data)
           outputPath == singleOutputPath(channel[fid].caption)
       IN IF ok
          THEN /\ disk' = writeFileSync(d1, outputPath, d1[tdPath(fid)])
               /\ tdfiles' = [tdfiles EXCEPT ![fid] = [path |-> tdPath(fid),
                                                       completed |-> TRUE]]
               /\ serving' = [serving EXCEPT ![r].pc = "streaming",
                                             ![r].filePath = outputPath]
          ELSE /\ serving' = [serving EXCEPT ![r].pc = "failed"]
               /\ UNCHANGED <<disk, tdfiles>>
    /\ UNCHANGED <<channel, callVars, histVars, codecVars, authVars, apiVars>>

\* fileStream.pipe(res): the stream reads the file at filePath as it is now
ServeStream(r) ==
    /\ serving[r].pc = "streaming"
    /\ serving' = (IF existsSync(disk, serving[r].filePath)
                   THEN [serving EXCEPT ![r].pc = "streamed",
                                        ![r].body = disk[serving[r].filePath]]
                   ELSE [serving EXCEPT ![r].pc = "streamError"])
    /\ UNCHANGED <<transferVars, codecVars, authVars, apiVars>>

\* fileStream.on('end', ...): fs.unlinkSync(filePath)
ServeEnd(r) ==
    /\ serving[r].pc = "streamed"
    /\ disk' = unlinkSync(disk, serving[r].filePath)
    /\ serving' = [serving EXCEPT ![r].pc =
                       IF existsSync(disk, serving[r].filePath)
                       THEN "served" ELSE "unlinkError"]
    /\ UNCHANGED <<relayVars, callVars, histVars, codecVars, authVars, apiVars>>

InitOverlap ==
    /\ disk = EmptyDisk
    /\ channel \in OverlapChannels
    /\ tdfiles = [k \in 1..Len(channel) |-> [path |-> NoPath, completed |-> FALSE]]
    /\ op = "none"
    /\ pc = "idle"
    /\ orch = OrchIdle
    /\ gw = GwIdle
    /\ elapsed = 0
    /\ res = ResNone
    /\ made = {}
    /\ sent = <<>>
    /\ lastUpd = <<>>
    /\ opsLeft = 0
    /\ CodecOff
    /\ GatewayReady
    /\ ServingNone
    /\ StorageNew

NextOverlap ==
    \/ \E r \in Requests, messageId \in 1..Len(channel) : ServeBegin(r, messageId)
    \/ \E r \in Requests, ok \in BOOLEAN : ServeFetched(r, ok)
    \/ \E r \in Requests : ServeStream(r)
    \/ \E r \in Requests : ServeEnd(r)

SpecOverlap == InitOverlap /\ [][NextOverlap]_vars

\* ------------------------------------------------------------------------
\* Properties of downloads served at the same time
\* ------------------------------------------------------------------------
\* C25: when the downloads being served are for different files, the path
\* returned to a request holds the bytes of the file that request asked for
\* until the request has streamed it, what a request streams is its own
\* file, and no request finds its output file deleted.
C25_OverlappingDownloadsKeepTheirOutput ==
    \A r \in Requests :
        (\A s \in Requests \ {r} :
            serving[s].pc # "idle" => serving[s].messageId # serving[r].messageId) =>
          /\ serving[r].pc = "streaming" =>
                /\ existsSync(disk, serving[r].filePath)
                /\ disk[serving[r].filePath] = channel[serving[r].messageId].data
          /\ serving[r].pc \in {"streamed", "served"} =>
                serving[r].body = channel[serving[r].messageId].data
          /\ serving[r].pc \notin {"streamError", "unlinkError"}

====
